---- MODULE Spec2Model ----
(***************************************************************************)
(* Model of the GSM transport services of gsm-transport.                   *)
(*                                                                         *)
(* The repository holds several MessagesService classes.  Three of them    *)
(* are modelled, each under its own specification:                         *)
(*                                                                         *)
(*   SpecSend   the serial-port PDU service with trySendSms retries        *)
(*   SpecConn   (src/apps/gsm/src/services/gsm.service.ts:612-910):        *)
(*              SpecSend on a port that stays connected, with two jobs;    *)
(*              SpecConn with open failures, disconnects and shutdown      *)
(*   SpecQueue  the serial-port service with the message queue, the        *)
(*              incoming-line handler and the crons                        *)
(*              (src/unnamed/part_002:20-302)                              *)
(*   SpecGsm    the serialport-gsm service with the reconnect loop and     *)
(*              the alert mail (src/apps/gsm/src/services/gsm.service.ts:  *)
(*              19-277)                                                    *)
(*   SpecCodec  buildPDU of the PDU service and of src/unnamed/part_001,   *)
(*              each with the sendSms that calls it                        *)
(*                                                                         *)
(* Time is counted in ticks of 5000 ms.  A promise continuation is a       *)
(* microtask: while one is pending no event, timer or new call runs.       *)
(***************************************************************************)
EXTENDS Naturals, Integers, Sequences, FiniteSets, TLC

VARIABLES
    portState,      \* SerialPort: "closed" | "opening" | "open" | "closing"
    opener,         \* the caller whose port.open() is in flight
    isClosing,      \* MessagesService.isClosing
    timersFresh,    \* tryReconnect timers set during the current tick
    timersDue,      \* tryReconnect timers whose 5000 ms have elapsed
    initialized,    \* the last initializeModem run on this open port succeeded
    pc,             \* position of every async caller
    tx,             \* the sendCommand transaction every caller awaits
    attempt,        \* trySendSms: the attempt parameter of every job
    backoff,        \* trySendSms: ticks left of the retry wait
    result,         \* sendSms: what the call returned
    input,          \* sendSms: the kind of data every job was called with
    messageQueue,   \* MessagesService.messageQueue
    isProcessing,   \* MessagesService.isProcessing
    cooldown,       \* processQueue: ticks left of the delay between messages
    current,        \* processQueue: the message shifted from the queue
    outcome,        \* what became of every message handed to sendSms
    isConnected,    \* gsm service: MessagesService.isConnected
    reconnectInterval,  \* gsm service: a setInterval handle is stored
    intervalActive, \* gsm service: number of live setInterval timers
    reconnectAttempts,  \* gsm service: MessagesService.reconnectAttempts
    modemState,     \* serialport-gsm Modem: "closed" | "opening" | "open"
    mailPending,    \* reconnect ticks suspended in mailService.sendMail
    alertsSinceOpen, \* sendMail invocations since the last 'open' event
    lastOpen,       \* gsm service: what the last modem.open call found
    modemInitialized, \* the callback of modem.initializeModem has run
    codecIn,        \* PDU builder: the builder and the text handed to it
    codecOut,       \* PDU builder: what buildPDU returned and the caller wrote
    otpKey,         \* gsm service: configService.get('OTP_KEY')
    inbound,        \* an SMS the modem delivered and how far its handling got
    handlers        \* gsm service: handlers registered per modem event

serialVars == <<portState, opener, isClosing, timersFresh, timersDue, initialized, pc, tx>>
pduVars == <<attempt, backoff, result, input>>
queueVars == <<messageQueue, isProcessing, cooldown, current, outcome>>
gsmVars == <<isConnected, reconnectInterval, intervalActive, reconnectAttempts,
             modemState, mailPending, alertsSinceOpen, lastOpen, modemInitialized>>
codecVars == <<codecIn, codecOut>>
routerVars == <<otpKey, inbound, handlers>>
vars == <<serialVars, pduVars, queueVars, gsmVars, codecVars, routerVars>>

(***************************************************************************)
(* Bounds                                                                  *)
(***************************************************************************)
MaxTimers == 2
MaxResp == 1
MaxAttempts == 7
MaxMail == 2
MaxHandlers == 2

(***************************************************************************)
(* Program constants (times in ticks of 5000 ms)                           *)
(***************************************************************************)
defaultTimeout == 1
pduTimeout == 2
maxRetries == 3
retryInterval == 1
alertThreshold == 5

(***************************************************************************)
(* Response lines and String.includes over them                            *)
(***************************************************************************)
LineOK == "OK"
LinePrompt == ">"
LineCms == "+CMS ERROR: 38"
LineCme == "+CME ERROR: 10"
LineCmti == "+CMTI: \"SM\",3"
TimeoutText == "Timeout waiting for response"

\* the substrings of a line among the tokens the services look for
Substrings(line) ==
    CASE line = LineOK -> {"OK"}
      [] line = LinePrompt -> {">"}
      [] line = LineCms -> {"+CMS ERROR", "ERROR"}
      [] line = LineCme -> {"+CME ERROR", "ERROR"}
      [] line = LineCmti -> {"+CMTI:"}
      [] OTHER -> {}

includes(line, token) == token \in Substrings(line)

\* String.includes on the accumulated response (the lines joined by '\n')
textIncludes(text, token) == \E i \in 1..Len(text) : includes(text[i], token)

\* a sendCommand promise: its listener's closure (waitFor, response), its timer,
\* how it settled, what held on the line when the call was made, whether its
\* listener is registered on the parser and whether its timer is armed
NoTx == [st |-> "none", cmd |-> "", waitFor |-> {}, timeout |-> 0, elapsed |-> 0,
         response |-> <<>>, cause |-> "", err |-> "", busy |-> FALSE, ready |-> FALSE,
         listening |-> FALSE, armed |-> FALSE]

Active(p) == tx[p].st = "active"
Settled(p) == tx[p].st \in {"resolved", "rejected"}
NoMicrotask == \A p \in DOMAIN tx : ~Settled(p)
Outstanding == {p \in DOMAIN tx : Active(p)}

\* the session is Ready: channel open, initialization completed, none running
InitSteps == {"AT", "ATZ", "ATE0", "CMGF"}
sessionReady == /\ portState = "open"
                /\ initialized
                /\ \A p \in DOMAIN pc : pc[p] \notin InitSteps

(***************************************************************************)
(* sendCommand of the PDU service                                          *)
(***************************************************************************)
\* the promise executor: rejects when the port is not open, otherwise
\* registers the listener, writes the command and arms the timer
sendCommand(isOpen, busyNow, readyNow, cmd, waitFor, timeout) ==
    IF ~isOpen
    THEN [NoTx EXCEPT !.st = "rejected", !.cmd = cmd, !.cause = "notOpen",
                      !.err = "Serial port is not open"]
    ELSE [NoTx EXCEPT !.st = "active", !.cmd = cmd, !.waitFor = waitFor,
                      !.timeout = timeout, !.busy = busyNow, !.ready = readyNow,
                      !.listening = TRUE, !.armed = TRUE]

\* the listener were it to resolve on a terminator and stay registered, its
\* timer armed
listener_mut(t, data) ==
    LET response == Append(t.response, data) IN
    IF \E w \in t.waitFor : includes(data, w)
    THEN [t EXCEPT !.st = "resolved", !.response = response, !.cause = "terminator"]
    ELSE IF includes(data, "+CME ERROR") \/ includes(data, "+CMS ERROR")
    THEN [t EXCEPT !.st = "rejected", !.response = response, !.cause = "modemError",
                   !.err = data, !.listening = FALSE, !.armed = FALSE]
    ELSE [t EXCEPT !.response = response]

\* the 'data' listener of one transaction; before it settles the promise it
\* calls parser.removeListener('data', listener) and clearTimeout(timer)
listener(t, data) ==
    LET response == Append(t.response, data) IN
    IF \E w \in t.waitFor : includes(data, w)
    THEN [t EXCEPT !.st = "resolved", !.response = response, !.cause = "terminator",
                   !.listening = FALSE, !.armed = FALSE]
    ELSE IF includes(data, "+CME ERROR") \/ includes(data, "+CMS ERROR")
    THEN [t EXCEPT !.st = "rejected", !.response = response, !.cause = "modemError",
                   !.err = data, !.listening = FALSE, !.armed = FALSE]
    ELSE [t EXCEPT !.response = response]

\* the timer callback were it to settle nothing
onTimeout_mut(t) == t

\* the timer callback: removeListener, then
\* resolve(response || 'Timeout waiting for response')
onTimeout(t) ==
    [t EXCEPT !.st = "resolved", !.cause = "timeout",
              !.response = IF t.response = <<>> THEN <<TimeoutText>> ELSE t.response,
              !.listening = FALSE, !.armed = FALSE]

\* the write callback with an error: removeListener, clearTimeout, reject
onWriteError(t) ==
    [t EXCEPT !.st = "rejected", !.cause = "writeError", !.err = "write failed",
              !.listening = FALSE, !.armed = FALSE]

\* a line that settles the transaction or still fits the modelled response
Fits(t, data, react(_, _)) ==
    \/ Len(t.response) < MaxResp
    \/ react(t, data).st # "active"

(***************************************************************************)
(* The PDU builders                                                        *)
(***************************************************************************)
\* the gsm service and its copy in part_008
Builds == {"gsm", "part_008"}
NoHandlers == [b \in Builds |-> 0]
NoInbound ==
    [variant |-> "none", sender |-> <<>>, amount |-> <<>>, manat |-> FALSE,
     admins |-> <<>>, stage |-> "none"]
NoCodecIn == [builder |-> "none", smsc |-> <<>>, recipient |-> <<>>, chars |-> 0]
NoCodecOut ==
    [stage |-> "none", fullNumber |-> <<>>, built |-> FALSE, smscLength |-> 0,
     smscEncoded |-> <<>>, smscAddr |-> <<>>, recipientLength |-> 0,
     recipientEncoded |-> <<>>, udl |-> 0, octets |-> 0, pduLength |-> 0,
     written |-> FALSE]

(***************************************************************************)
(* The PDU service (gsm.service.ts:612-910)                                *)
(***************************************************************************)
RcProcs == {"rc1"}
Jobs == {"job1", "job2"}
InitProcs == {"init"} \cup RcProcs
PduProcs == InitProcs \cup Jobs

NoResult == [success |-> FALSE, message |-> "", detail |-> <<>>]

TimerCount == timersFresh + timersDue

InitPdu ==
    /\ portState = "closed"
    /\ opener = "none"
    /\ isClosing = FALSE
    /\ timersFresh = 0
    /\ timersDue = 0
    /\ initialized = FALSE
    /\ pc = [p \in PduProcs |-> IF p = "init" THEN "start" ELSE "idle"]
    /\ tx = [p \in PduProcs |-> NoTx]
    /\ attempt = [j \in Jobs |-> 0]
    /\ backoff = [j \in Jobs |-> 0]
    /\ result = [j \in Jobs |-> NoResult]
    /\ input = [j \in Jobs |-> "none"]
    /\ messageQueue = <<>>
    /\ isProcessing = FALSE
    /\ cooldown = 0
    /\ current = "none"
    /\ outcome = <<>>
    /\ isConnected = FALSE
    /\ reconnectInterval = FALSE
    /\ intervalActive = 0
    /\ reconnectAttempts = 0
    /\ modemState = "closed"
    /\ mailPending = 0
    /\ alertsSinceOpen = 0
    /\ lastOpen = "none"
    /\ modemInitialized = FALSE
    /\ codecIn = NoCodecIn
    /\ codecOut = NoCodecOut
    /\ otpKey = "undefined"
    /\ inbound = NoInbound
    /\ handlers = NoHandlers

\* onModuleInit -> initPort -> openPort: port.open() is issued
P_onModuleInit ==
    /\ pc["init"] = "start"
    /\ portState' = "opening"
    /\ opener' = "init"
    /\ pc' = [pc EXCEPT !["init"] = "opening"]
    /\ UNCHANGED <<isClosing, timersFresh, timersDue, initialized, tx>>
    /\ UNCHANGED <<pduVars, queueVars, gsmVars, codecVars, routerVars>>

\* the open callback without error: openPort resolves and initializeModem
\* issues its first command
P_openOk ==
    /\ portState = "opening"
    /\ NoMicrotask
    /\ portState' = "open"
    /\ initialized' = FALSE
    /\ pc' = [pc EXCEPT ![opener] = "AT"]
    /\ tx' = [tx EXCEPT ![opener] =
                 sendCommand(TRUE, Outstanding # {}, FALSE, "AT", {"OK"}, defaultTimeout)]
    /\ opener' = "none"
    /\ UNCHANGED <<isClosing, timersFresh, timersDue>>
    /\ UNCHANGED <<pduVars, queueVars, gsmVars, codecVars, routerVars>>

\* the open callback with an error: tryReconnect(), then reject(err); at
\* startup the rejection leaves initPort and onModuleInit ("openFailed"), the
\* catch of a reconnect task calls tryReconnect() once more
P_openErr ==
    /\ portState = "opening"
    /\ NoMicrotask
    /\ TimerCount + (IF opener = "init" THEN 1 ELSE 2) <= MaxTimers
    /\ portState' = "closed"
    /\ timersFresh' = timersFresh + (IF opener = "init" THEN 1 ELSE 2)
    /\ pc' = [pc EXCEPT ![opener] = IF opener = "init" THEN "openFailed" ELSE "idle"]
    /\ opener' = "none"
    /\ UNCHANGED <<isClosing, timersDue, initialized, tx>>
    /\ UNCHANGED <<pduVars, queueVars, gsmVars, codecVars, routerVars>>

\* a tryReconnect timer fires: nothing when closing, else openPort(); an open
\* of a port that is open or opening is answered with an error
P_reconnectTimer(p) ==
    /\ pc[p] = "idle"
    /\ timersDue > 0
    /\ NoMicrotask
    /\ IF isClosing
       THEN /\ timersDue' = timersDue - 1
            /\ UNCHANGED <<portState, opener, pc, timersFresh>>
       ELSE IF portState = "closed"
       THEN /\ timersDue' = timersDue - 1
            /\ portState' = "opening"
            /\ opener' = p
            /\ pc' = [pc EXCEPT ![p] = "opening"]
            /\ UNCHANGED timersFresh
       ELSE /\ TimerCount - 1 + 2 <= MaxTimers
            /\ timersDue' = timersDue - 1
            /\ timersFresh' = timersFresh + 2
            /\ UNCHANGED <<portState, opener, pc>>
    /\ UNCHANGED <<isClosing, initialized, tx>>
    /\ UNCHANGED <<pduVars, queueVars, gsmVars, codecVars, routerVars>>

NextInitCmd(step) ==
    CASE step = "AT" -> "ATZ"
      [] step = "ATZ" -> "ATE0"
      [] step = "ATE0" -> "CMGF"
      [] OTHER -> "done"

\* initializeModem resumes after an awaited sendCommand
P_initStep(p) ==
    /\ pc[p] \in InitSteps
    /\ Settled(p)
    /\ IF tx[p].st = "resolved"
       THEN IF NextInitCmd(pc[p]) # "done"
            THEN /\ tx' = [tx EXCEPT ![p] =
                            sendCommand(portState = "open", Outstanding # {}, FALSE,
                                        NextInitCmd(pc[p]), {"OK"}, defaultTimeout)]
                 /\ pc' = [pc EXCEPT ![p] = NextInitCmd(pc[p])]
                 /\ UNCHANGED <<initialized, timersFresh>>
            ELSE /\ tx' = [tx EXCEPT ![p] = NoTx]
                 /\ pc' = [pc EXCEPT ![p] = IF p = "init" THEN "ready" ELSE "idle"]
                 /\ initialized' = TRUE
                 /\ UNCHANGED timersFresh
       ELSE /\ tx' = [tx EXCEPT ![p] = NoTx]
            /\ pc' = [pc EXCEPT ![p] = IF p = "init" THEN "failed" ELSE "idle"]
            /\ IF p = "init"
               THEN UNCHANGED timersFresh
               ELSE /\ TimerCount < MaxTimers
                    /\ timersFresh' = timersFresh + 1
            /\ UNCHANGED initialized
    /\ UNCHANGED <<portState, opener, isClosing, timersDue>>
    /\ UNCHANGED <<pduVars, queueVars, gsmVars, codecVars, routerVars>>

\* the kinds of data sendSms is called with: a valid number and payload, a
\* phone number that is not 8 digits, a payload of more than 70 characters
Inputs == {"valid", "badNumber", "tooLong"}

\* sendSms without its checks
validate_mut(inp) == ""

\* the checks of sendSms before trySendSms: the message returned, "" when
\* the data passes
validate(inp) ==
    CASE inp = "badNumber" -> "Phone number must be 8 digits"
      [] inp = "tooLong" -> "Message exceeds 70 characters for single-part SMS"
      [] OTHER -> ""

\* the retry test were it off by one: attempt <= this.maxRetries
retryAllowed_mut(a) == a <= maxRetries

\* the test of the catch of trySendSms: attempt < this.maxRetries
retryAllowed(a) == a < maxRetries

\* trySendSms(smsc, fullNumber, payload, a) up to its first await; buildPDU
\* runs inside the try: encodePhoneNumber throws on a number that is not
\* numeric (caught and retried), and the object buildPDU returns for a
\* message that is too long is destructured without a test
trySendSms(j, a, inp) ==
    /\ attempt' = [attempt EXCEPT ![j] = a]
    /\ IF portState # "open"
       THEN /\ result' = [result EXCEPT ![j] =
                   [success |-> FALSE, message |-> "Port not open. Waiting for reconnect.",
                    detail |-> <<>>]]
            /\ pc' = [pc EXCEPT ![j] = "done"]
            /\ tx' = [tx EXCEPT ![j] = NoTx]
            /\ backoff' = [backoff EXCEPT ![j] = 0]
       ELSE IF inp = "badNumber"
       THEN IF retryAllowed(a)
            THEN /\ pc' = [pc EXCEPT ![j] = "backoff"]
                 /\ backoff' = [backoff EXCEPT ![j] = retryInterval]
                 /\ tx' = [tx EXCEPT ![j] = NoTx]
                 /\ UNCHANGED result
            ELSE /\ pc' = [pc EXCEPT ![j] = "done"]
                 /\ backoff' = [backoff EXCEPT ![j] = 0]
                 /\ tx' = [tx EXCEPT ![j] = NoTx]
                 /\ result' = [result EXCEPT ![j] =
                        [success |-> FALSE,
                         message |-> "Failed to send SMS after 3 attempts",
                         detail |-> <<"Invalid phone number: must be numeric">>]]
       ELSE /\ tx' = [tx EXCEPT ![j] =
                   sendCommand(TRUE, Outstanding \ {j} # {}, sessionReady,
                               "AT+CMGS", {">"}, defaultTimeout)]
            /\ pc' = [pc EXCEPT ![j] = "cmgs"]
            /\ backoff' = [backoff EXCEPT ![j] = 0]
            /\ UNCHANGED result

\* sendSms(data), called by the controller, which is served once onModuleInit
\* has resolved; the jobs arrive in the order job1, job2
P_sendSms(j, inp) ==
    /\ pc["init"] = "ready"
    /\ pc[j] = "idle"
    /\ j = "job2" => pc["job1"] # "idle"
    /\ NoMicrotask
    /\ input' = [input EXCEPT ![j] = inp]
    /\ IF validate(inp) # ""
       THEN /\ result' = [result EXCEPT ![j] =
                   [success |-> FALSE, message |-> validate(inp), detail |-> <<>>]]
            /\ pc' = [pc EXCEPT ![j] = "done"]
            /\ UNCHANGED <<attempt, backoff, tx>>
       ELSE trySendSms(j, 1, inp)
    /\ UNCHANGED <<portState, opener, isClosing, timersFresh, timersDue, initialized>>
    /\ UNCHANGED <<queueVars, gsmVars, codecVars, routerVars>>

\* trySendSms resumes after an awaited sendCommand
P_sendStep(j) ==
    /\ pc[j] \in {"cmgs", "pdu"}
    /\ Settled(j)
    /\ IF tx[j].st = "resolved"
       THEN IF pc[j] = "cmgs"
            THEN /\ tx' = [tx EXCEPT ![j] =
                        sendCommand(portState = "open", Outstanding # {}, sessionReady,
                                    "PDU", {"OK", "+CMS ERROR"}, pduTimeout)]
                 /\ pc' = [pc EXCEPT ![j] = "pdu"]
                 /\ UNCHANGED <<result, backoff>>
            ELSE /\ tx' = [tx EXCEPT ![j] = NoTx]
                 /\ pc' = [pc EXCEPT ![j] = "done"]
                 /\ result' = [result EXCEPT ![j] =
                        IF textIncludes(tx[j].response, "+CMS ERROR")
                        THEN [success |-> FALSE,
                              message |-> "Modem returned error while sending SMS",
                              detail |-> tx[j].response]
                        ELSE [success |-> TRUE, message |-> "SMS sent successfully",
                              detail |-> <<>>]]
                 /\ UNCHANGED backoff
       ELSE IF retryAllowed(attempt[j])
            THEN /\ tx' = [tx EXCEPT ![j] = NoTx]
                 /\ pc' = [pc EXCEPT ![j] = "backoff"]
                 /\ backoff' = [backoff EXCEPT ![j] = retryInterval]
                 /\ UNCHANGED result
            ELSE /\ tx' = [tx EXCEPT ![j] = NoTx]
                 /\ pc' = [pc EXCEPT ![j] = "done"]
                 /\ result' = [result EXCEPT ![j] =
                        [success |-> FALSE,
                         message |-> "Failed to send SMS after 3 attempts",
                         detail |-> <<tx[j].err>>]]
                 /\ UNCHANGED backoff
    /\ UNCHANGED <<attempt, input>>
    /\ UNCHANGED <<portState, opener, isClosing, timersFresh, timersDue, initialized>>
    /\ UNCHANGED <<queueVars, gsmVars, codecVars, routerVars>>

\* the retry wait is over: trySendSms(smsc, fullNumber, payload, attempt + 1)
P_retry(j) ==
    /\ pc[j] = "backoff"
    /\ backoff[j] = 0
    /\ NoMicrotask
    /\ trySendSms(j, attempt[j] + 1, input[j])
    /\ UNCHANGED input
    /\ UNCHANGED <<portState, opener, isClosing, timersFresh, timersDue, initialized>>
    /\ UNCHANGED <<queueVars, gsmVars, codecVars, routerVars>>

PduLines == {LineOK, LinePrompt, LineCms, LineCme}

\* the parser emits a line: every registered listener runs on it
P_data(data) ==
    /\ portState = "open"
    /\ NoMicrotask
    /\ Outstanding # {}
    /\ \A p \in Outstanding : Fits(tx[p], data, listener)
    /\ tx' = [p \in DOMAIN tx |-> IF tx[p].listening THEN listener(tx[p], data) ELSE tx[p]]
    /\ UNCHANGED <<portState, opener, isClosing, timersFresh, timersDue, initialized, pc>>
    /\ UNCHANGED <<pduVars, queueVars, gsmVars, codecVars, routerVars>>

\* the timer of a transaction fires
P_timeout(p) ==
    /\ tx[p].armed
    /\ tx[p].elapsed >= tx[p].timeout
    /\ NoMicrotask
    /\ tx' = [tx EXCEPT ![p] = onTimeout(tx[p])]
    /\ UNCHANGED <<portState, opener, isClosing, timersFresh, timersDue, initialized, pc>>
    /\ UNCHANGED <<pduVars, queueVars, gsmVars, codecVars, routerVars>>

\* port.write calls back with an error
P_writeError(p) ==
    /\ Active(p)
    /\ tx[p].elapsed = 0
    /\ tx[p].response = <<>>
    /\ NoMicrotask
    /\ tx' = [tx EXCEPT ![p] = onWriteError(tx[p])]
    /\ UNCHANGED <<portState, opener, isClosing, timersFresh, timersDue, initialized, pc>>
    /\ UNCHANGED <<pduVars, queueVars, gsmVars, codecVars, routerVars>>

\* 5000 ms pass; no timer that is due is overtaken
P_tick ==
    /\ NoMicrotask
    /\ \A p \in Outstanding : tx[p].elapsed < tx[p].timeout
    /\ \A j \in Jobs : pc[j] = "backoff" => backoff[j] > 0
    /\ \/ Outstanding # {}
       \/ timersFresh > 0
       \/ \E j \in Jobs : pc[j] = "backoff"
    /\ tx' = [p \in DOMAIN tx |->
                IF Active(p) THEN [tx[p] EXCEPT !.elapsed = @ + 1] ELSE tx[p]]
    /\ backoff' = [j \in Jobs |-> IF backoff[j] > 0 THEN backoff[j] - 1 ELSE 0]
    /\ timersDue' = timersDue + timersFresh
    /\ timersFresh' = 0
    /\ UNCHANGED <<portState, opener, isClosing, initialized, pc, attempt, result, input>>
    /\ UNCHANGED <<queueVars, gsmVars, codecVars, routerVars>>

\* port 'error' event on the open port: tryReconnect()
P_portError ==
    /\ portState = "open"
    /\ NoMicrotask
    /\ TimerCount < MaxTimers
    /\ timersFresh' = timersFresh + 1
    /\ UNCHANGED <<portState, opener, isClosing, timersDue, initialized, pc, tx>>
    /\ UNCHANGED <<pduVars, queueVars, gsmVars, codecVars, routerVars>>

\* the device goes away: port 'close' event
P_portClose ==
    /\ portState = "open"
    /\ NoMicrotask
    /\ portState' = "closed"
    /\ initialized' = FALSE
    /\ IF isClosing
       THEN UNCHANGED timersFresh
       ELSE /\ TimerCount < MaxTimers
            /\ timersFresh' = timersFresh + 1
    /\ UNCHANGED <<opener, isClosing, timersDue, pc, tx>>
    /\ UNCHANGED <<pduVars, queueVars, gsmVars, codecVars, routerVars>>

\* onModuleDestroy (the application is closed after it was started):
\* isClosing = true; port.close() when the port is open
P_onModuleDestroy ==
    /\ ~isClosing
    /\ pc["init"] = "ready"
    /\ NoMicrotask
    /\ isClosing' = TRUE
    /\ portState' = IF portState = "open" THEN "closing" ELSE portState
    /\ UNCHANGED <<opener, timersFresh, timersDue, initialized, pc, tx>>
    /\ UNCHANGED <<pduVars, queueVars, gsmVars, codecVars, routerVars>>

\* the close callback: the port is closed, the 'close' handler sees isClosing
P_closeDone ==
    /\ portState = "closing"
    /\ NoMicrotask
    /\ portState' = "closed"
    /\ initialized' = FALSE
    /\ UNCHANGED <<opener, isClosing, timersFresh, timersDue, pc, tx>>
    /\ UNCHANGED <<pduVars, queueVars, gsmVars, codecVars, routerVars>>

\* the port opens and stays connected; two jobs
NextSend ==
    \/ P_onModuleInit
    \/ P_openOk
    \/ \E p \in {"init"} : P_initStep(p)
    \/ \E j \in Jobs, inp \in Inputs : P_sendSms(j, inp)
    \/ \E j \in Jobs : P_sendStep(j)
    \/ \E j \in Jobs : P_retry(j)
    \/ \E data \in PduLines : P_data(data)
    \/ \E p \in PduProcs : P_timeout(p)
    \/ \E p \in PduProcs : P_writeError(p)
    \/ P_tick

SpecSend == InitPdu /\ [][NextSend]_vars

\* the event loop runs every continuation that is ready and every timer
\* that is due, and time passes; the modem is free never to answer
SendProgress ==
    /\ WF_vars(P_tick)
    /\ \A p \in PduProcs : WF_vars(P_timeout(p))
    /\ \A j \in Jobs : WF_vars(P_sendStep(j)) /\ WF_vars(P_retry(j))
    /\ WF_vars(P_initStep("init"))

SpecSendLive == SpecSend /\ SendProgress

\* open failures, disconnects, reconnects and shutdown; one job
NextConn ==
    \/ P_onModuleInit
    \/ P_openOk
    \/ P_openErr
    \/ \E p \in RcProcs : P_reconnectTimer(p)
    \/ \E p \in InitProcs : P_initStep(p)
    \/ \E j \in {"job1"}, inp \in Inputs : P_sendSms(j, inp)
    \/ \E j \in {"job1"} : P_sendStep(j)
    \/ \E j \in {"job1"} : P_retry(j)
    \/ \E data \in PduLines : P_data(data)
    \/ \E p \in PduProcs : P_timeout(p)
    \/ \E p \in PduProcs : P_writeError(p)
    \/ P_tick
    \/ P_portError
    \/ P_portClose
    \/ P_onModuleDestroy
    \/ P_closeDone

SpecConn == InitPdu /\ [][NextConn]_vars

(***************************************************************************)
(* The queue service (part_002:20-302), on a port that opens and stays     *)
(* connected until it is closed by onModuleDestroy                         *)
(***************************************************************************)
QueueProcs == {"init", "consumer", "inc1", "cron"}
QInitProcs == {"init"}
QInitSteps == {"AT", "ATZ", "ATE0", "CMGF", "CNMI", "CSCA"}
QueueLines == {LineOK, LinePrompt, LineCms, LineCmti}
Phones == {"0800", "63412114"}
MaxMsgs == 2
shortCodeTimeout == 4
queueDelay == 1

\* sendCommand of the queue service: the same executor as the PDU service's
sendCommandQ(isOpen, busyNow, readyNow, cmd, waitFor, timeout) ==
    IF ~isOpen
    THEN [NoTx EXCEPT !.st = "rejected", !.cmd = cmd, !.cause = "notOpen",
                      !.err = "Serial port not open"]
    ELSE [NoTx EXCEPT !.st = "active", !.cmd = cmd, !.waitFor = waitFor,
                      !.timeout = timeout, !.busy = busyNow, !.ready = readyNow,
                      !.listening = TRUE, !.armed = TRUE]

\* its 'data' listener: resolve on a terminator, then reject on 'ERROR' (a
\* reject after a resolve has no effect)
listenerQ(t, data) ==
    LET response == Append(t.response, data) IN
    IF \E w \in t.waitFor : includes(data, w)
    THEN [t EXCEPT !.st = "resolved", !.response = response, !.cause = "terminator",
                   !.listening = FALSE, !.armed = FALSE]
    ELSE IF includes(data, "ERROR")
    THEN [t EXCEPT !.st = "rejected", !.response = response, !.cause = "modemError",
                   !.err = data, !.listening = FALSE, !.armed = FALSE]
    ELSE [t EXCEPT !.response = response]

sessionReadyQ == /\ portState = "open"
                 /\ initialized
                 /\ \A p \in QInitProcs : pc[p] \notin QInitSteps /\ pc[p] # "wait"

InitQueue ==
    /\ portState = "closed"
    /\ opener = "none"
    /\ isClosing = FALSE
    /\ timersFresh = 0
    /\ timersDue = 0
    /\ initialized = FALSE
    /\ pc = [p \in QueueProcs |-> IF p = "init" THEN "start" ELSE "idle"]
    /\ tx = [p \in QueueProcs |-> NoTx]
    /\ attempt = [j \in Jobs |-> 0]
    /\ backoff = [j \in Jobs |-> 0]
    /\ result = [j \in Jobs |-> NoResult]
    /\ input = [j \in Jobs |-> "none"]
    /\ messageQueue = <<>>
    /\ isProcessing = FALSE
    /\ cooldown = 0
    /\ current = "none"
    /\ outcome = <<>>
    /\ isConnected = FALSE
    /\ reconnectInterval = FALSE
    /\ intervalActive = 0
    /\ reconnectAttempts = 0
    /\ modemState = "closed"
    /\ mailPending = 0
    /\ alertsSinceOpen = 0
    /\ lastOpen = "none"
    /\ modemInitialized = FALSE
    /\ codecIn = NoCodecIn
    /\ codecOut = NoCodecOut
    /\ otpKey = "undefined"
    /\ inbound = NoInbound
    /\ handlers = NoHandlers

\* onModuleInit -> initPort -> openPort
Q_onModuleInit ==
    /\ pc["init"] = "start"
    /\ portState' = "opening"
    /\ opener' = "init"
    /\ pc' = [pc EXCEPT !["init"] = "opening"]
    /\ UNCHANGED <<isClosing, timersFresh, timersDue, initialized, tx>>
    /\ UNCHANGED <<pduVars, queueVars, gsmVars, codecVars, routerVars>>

\* the open callback without error: initializeModem issues 'AT'
Q_openOk ==
    /\ portState = "opening"
    /\ NoMicrotask
    /\ portState' = "open"
    /\ initialized' = FALSE
    /\ pc' = [pc EXCEPT ![opener] = "AT"]
    /\ tx' = [tx EXCEPT ![opener] =
                 sendCommandQ(TRUE, Outstanding # {}, FALSE, "AT", {"OK"}, defaultTimeout)]
    /\ opener' = "none"
    /\ UNCHANGED <<isClosing, timersFresh, timersDue>>
    /\ UNCHANGED <<pduVars, queueVars, gsmVars, codecVars, routerVars>>

\* the command initializeModem issues after the one at step
QNextInitCmd(step) ==
    CASE step = "AT" -> "ATZ"
      [] step = "ATZ" -> "ATE0"
      [] step = "ATE0" -> "CMGF"
      [] step = "CMGF" -> "CNMI"
      [] step = "CNMI" -> "CSCA"
      [] OTHER -> "done"

\* a pause of 2000 ms (4000 ms at the end) follows every command but CNMI
QPauseAfter(step) == step # "CNMI"

\* initializeModem resumes after an awaited sendCommand
Q_initStep(p) ==
    /\ pc[p] \in QInitSteps
    /\ Settled(p)
    /\ IF tx[p].st = "resolved"
       THEN IF QPauseAfter(pc[p])
            THEN /\ tx' = [tx EXCEPT ![p] = [NoTx EXCEPT !.cmd = pc[p]]]
                 /\ pc' = [pc EXCEPT ![p] = "wait"]
                 /\ UNCHANGED timersFresh
            ELSE /\ tx' = [tx EXCEPT ![p] =
                            sendCommandQ(portState = "open", Outstanding # {}, FALSE,
                                         QNextInitCmd(pc[p]), {"OK"}, defaultTimeout)]
                 /\ pc' = [pc EXCEPT ![p] = QNextInitCmd(pc[p])]
                 /\ UNCHANGED timersFresh
       ELSE /\ tx' = [tx EXCEPT ![p] = NoTx]
            /\ pc' = [pc EXCEPT ![p] = "failed"]
            /\ UNCHANGED timersFresh
    /\ UNCHANGED <<portState, opener, isClosing, timersDue, initialized>>
    /\ UNCHANGED <<pduVars, queueVars, gsmVars, codecVars, routerVars>>

\* a pause of initializeModem is over: the next command, or the end
Q_pauseDone(p) ==
    /\ pc[p] = "wait"
    /\ NoMicrotask
    /\ IF QNextInitCmd(tx[p].cmd) # "done"
       THEN /\ tx' = [tx EXCEPT ![p] =
                       sendCommandQ(portState = "open", Outstanding # {}, FALSE,
                                    QNextInitCmd(tx[p].cmd), {"OK"}, defaultTimeout)]
            /\ pc' = [pc EXCEPT ![p] = QNextInitCmd(tx[p].cmd)]
            /\ UNCHANGED initialized
       ELSE /\ tx' = [tx EXCEPT ![p] = NoTx]
            /\ pc' = [pc EXCEPT ![p] = "ready"]
            /\ initialized' = TRUE
    /\ UNCHANGED <<portState, opener, isClosing, timersFresh, timersDue>>
    /\ UNCHANGED <<pduVars, queueVars, gsmVars, codecVars, routerVars>>

\* _sendSmsInternal up to its first await: the mode command of the message
startSend(msg) ==
    /\ current' = msg
    /\ outcome' = [outcome EXCEPT ![msg.id] = [status |-> "InFlight", cause |-> ""]]
    /\ tx' = [tx EXCEPT !["consumer"] =
                 sendCommandQ(portState = "open", Outstanding # {}, sessionReadyQ,
                              IF msg.phonenumber = "0800" THEN "AT+CMGF=1" ELSE "AT+CMGF=0",
                              {"OK"}, defaultTimeout)]
    /\ pc' = [pc EXCEPT !["consumer"] = "cmgf"]

\* sendSms -> enqueueMessage -> processQueue up to its first await
Q_sendSms(phonenumber) ==
    /\ pc["init"] = "ready"
    /\ NoMicrotask
    /\ Len(outcome) < MaxMsgs
    /\ LET msg == [id |-> Len(outcome) + 1, phonenumber |-> phonenumber] IN
       IF isProcessing
       THEN /\ messageQueue' = Append(messageQueue, msg)
            /\ outcome' = Append(outcome, [status |-> "Pending", cause |-> ""])
            /\ UNCHANGED <<isProcessing, current, tx, pc>>
       ELSE /\ isProcessing' = TRUE
            /\ messageQueue' = messageQueue
            /\ current' = msg
            /\ outcome' = Append(outcome, [status |-> "InFlight", cause |-> ""])
            /\ tx' = [tx EXCEPT !["consumer"] =
                        sendCommandQ(portState = "open", Outstanding # {}, sessionReadyQ,
                                     IF phonenumber = "0800" THEN "AT+CMGF=1" ELSE "AT+CMGF=0",
                                     {"OK"}, defaultTimeout)]
            /\ pc' = [pc EXCEPT !["consumer"] = "cmgf"]
    /\ UNCHANGED cooldown
    /\ UNCHANGED <<portState, opener, isClosing, timersFresh, timersDue, initialized>>
    /\ UNCHANGED <<pduVars, gsmVars, codecVars, routerVars>>

\* _sendSmsInternal resumes after an awaited sendCommand; a rejection is
\* caught by processQueue, logged, and the delay between messages starts
Q_consumerStep ==
    /\ pc["consumer"] \in {"cmgf", "cmgs", "body"}
    /\ Settled("consumer")
    /\ IF tx["consumer"].st = "resolved" /\ pc["consumer"] = "cmgf"
       THEN /\ tx' = [tx EXCEPT !["consumer"] =
                        sendCommandQ(portState = "open", Outstanding # {}, sessionReadyQ,
                                     "AT+CMGS", {">"}, defaultTimeout)]
            /\ pc' = [pc EXCEPT !["consumer"] = "cmgs"]
            /\ UNCHANGED <<outcome, cooldown>>
       ELSE IF tx["consumer"].st = "resolved" /\ pc["consumer"] = "cmgs"
       THEN /\ tx' = [tx EXCEPT !["consumer"] =
                        sendCommandQ(portState = "open", Outstanding # {}, sessionReadyQ,
                                     "BODY", {"OK"},
                                     IF current.phonenumber = "0800"
                                     THEN shortCodeTimeout ELSE pduTimeout)]
            /\ pc' = [pc EXCEPT !["consumer"] = "body"]
            /\ UNCHANGED <<outcome, cooldown>>
       ELSE /\ tx' = [tx EXCEPT !["consumer"] = NoTx]
            /\ pc' = [pc EXCEPT !["consumer"] = "cooldown"]
            /\ cooldown' = queueDelay
            /\ outcome' = [outcome EXCEPT ![current.id] =
                             IF tx["consumer"].st = "resolved"
                             THEN [status |-> "Sent", cause |-> tx["consumer"].cause]
                             ELSE [status |-> "Failed", cause |-> tx["consumer"].cause]]
    /\ UNCHANGED <<messageQueue, isProcessing, current>>
    /\ UNCHANGED <<portState, opener, isClosing, timersFresh, timersDue, initialized>>
    /\ UNCHANGED <<pduVars, gsmVars, codecVars, routerVars>>

\* the loop were it not to wait between messages
delayOver_mut(left) == TRUE

\* await new Promise((r) => setTimeout(r, 5000)): the timer has fired
delayOver(left) == left = 0

\* the delay between messages is over: the loop takes the next message or ends
Q_nextMessage ==
    /\ pc["consumer"] = "cooldown"
    /\ delayOver(cooldown)
    /\ NoMicrotask
    /\ IF messageQueue # <<>>
       THEN /\ messageQueue' = Tail(messageQueue)
            /\ startSend(Head(messageQueue))
            /\ UNCHANGED isProcessing
       ELSE /\ isProcessing' = FALSE
            /\ pc' = [pc EXCEPT !["consumer"] = "idle"]
            /\ current' = "none"
            /\ UNCHANGED <<messageQueue, outcome, tx>>
    /\ UNCHANGED cooldown
    /\ UNCHANGED <<portState, opener, isClosing, timersFresh, timersDue, initialized>>
    /\ UNCHANGED <<pduVars, gsmVars, codecVars, routerVars>>

\* the handler were it to recognize no line
isNotification_mut(line) == FALSE

\* line.startsWith('+CMTI:') and line.match(/\+CMTI: "(.+)",(\d+)/)
isNotification(line) == includes(line, "+CMTI:")

\* the parser emits a line: handleIncomingMessage runs first (registered in
\* initPort) and, for a '+CMTI:' line, issues AT+CMGR; then every listener
\* registered before the line runs on it
Q_data(data) ==
    /\ portState = "open"
    /\ NoMicrotask
    /\ \A p \in Outstanding : Fits(tx[p], data, listenerQ)
    /\ IF isNotification(data)
       THEN /\ pc["inc1"] = "idle"
            /\ pc' = [pc EXCEPT !["inc1"] = "cmgr"]
            /\ tx' = [p \in DOMAIN tx |->
                        IF p = "inc1"
                        THEN sendCommandQ(TRUE, Outstanding # {}, sessionReadyQ,
                                          "AT+CMGR", {"OK"}, defaultTimeout)
                        ELSE IF tx[p].listening THEN listenerQ(tx[p], data) ELSE tx[p]]
       ELSE /\ Outstanding # {}
            /\ tx' = [p \in DOMAIN tx |->
                        IF tx[p].listening THEN listenerQ(tx[p], data) ELSE tx[p]]
            /\ UNCHANGED pc
    /\ UNCHANGED <<portState, opener, isClosing, timersFresh, timersDue, initialized>>
    /\ UNCHANGED <<pduVars, queueVars, gsmVars, codecVars, routerVars>>

\* handleIncomingMessage resumes after AT+CMGR (a rejection is caught)
Q_incomingStep ==
    /\ pc["inc1"] = "cmgr"
    /\ Settled("inc1")
    /\ tx' = [tx EXCEPT !["inc1"] = NoTx]
    /\ pc' = [pc EXCEPT !["inc1"] = "idle"]
    /\ UNCHANGED <<portState, opener, isClosing, timersFresh, timersDue, initialized>>
    /\ UNCHANGED <<pduVars, queueVars, gsmVars, codecVars, routerVars>>

\* the hourly cron cleanupMemory: sendCommand('AT+CMGD=1,4')
Q_cleanupMemory ==
    /\ pc["init"] = "ready"
    /\ pc["cron"] = "idle"
    /\ NoMicrotask
    /\ tx' = [tx EXCEPT !["cron"] =
                 sendCommandQ(portState = "open", Outstanding # {}, sessionReadyQ,
                              "AT+CMGD", {"OK"}, defaultTimeout)]
    /\ pc' = [pc EXCEPT !["cron"] = "cmgd"]
    /\ UNCHANGED <<portState, opener, isClosing, timersFresh, timersDue, initialized>>
    /\ UNCHANGED <<pduVars, queueVars, gsmVars, codecVars, routerVars>>

\* cleanupMemory resumes (a rejection is caught and logged)
Q_cleanupStep ==
    /\ pc["cron"] = "cmgd"
    /\ Settled("cron")
    /\ tx' = [tx EXCEPT !["cron"] = NoTx]
    /\ pc' = [pc EXCEPT !["cron"] = "idle"]
    /\ UNCHANGED <<portState, opener, isClosing, timersFresh, timersDue, initialized>>
    /\ UNCHANGED <<pduVars, queueVars, gsmVars, codecVars, routerVars>>

\* the timer of a transaction fires
Q_timeout(p) ==
    /\ tx[p].armed
    /\ tx[p].elapsed >= tx[p].timeout
    /\ NoMicrotask
    /\ tx' = [tx EXCEPT ![p] = onTimeout(tx[p])]
    /\ UNCHANGED <<portState, opener, isClosing, timersFresh, timersDue, initialized, pc>>
    /\ UNCHANGED <<pduVars, queueVars, gsmVars, codecVars, routerVars>>

\* port.write calls back with an error
Q_writeError(p) ==
    /\ Active(p)
    /\ tx[p].elapsed = 0
    /\ tx[p].response = <<>>
    /\ NoMicrotask
    /\ tx' = [tx EXCEPT ![p] = onWriteError(tx[p])]
    /\ UNCHANGED <<portState, opener, isClosing, timersFresh, timersDue, initialized, pc>>
    /\ UNCHANGED <<pduVars, queueVars, gsmVars, codecVars, routerVars>>

\* 5000 ms pass; the pauses of initializeModem are shorter and end first
Q_tick ==
    /\ NoMicrotask
    /\ \A p \in Outstanding : tx[p].elapsed < tx[p].timeout
    /\ \A p \in QInitProcs : pc[p] # "wait"
    /\ pc["consumer"] = "cooldown" => cooldown > 0
    /\ \/ Outstanding # {}
       \/ pc["consumer"] = "cooldown"
    /\ tx' = [p \in DOMAIN tx |->
                IF Active(p) THEN [tx[p] EXCEPT !.elapsed = @ + 1] ELSE tx[p]]
    /\ cooldown' = IF cooldown > 0 THEN cooldown - 1 ELSE 0
    /\ UNCHANGED <<portState, opener, isClosing, timersFresh, timersDue, initialized, pc>>
    /\ UNCHANGED <<messageQueue, isProcessing, current, outcome>>
    /\ UNCHANGED <<pduVars, gsmVars, codecVars, routerVars>>

\* onModuleDestroy: isClosing = true; port.close() when the port is open
Q_onModuleDestroy ==
    /\ ~isClosing
    /\ pc["init"] = "ready"
    /\ NoMicrotask
    /\ isClosing' = TRUE
    /\ portState' = IF portState = "open" THEN "closing" ELSE portState
    /\ UNCHANGED <<opener, timersFresh, timersDue, initialized, pc, tx>>
    /\ UNCHANGED <<pduVars, queueVars, gsmVars, codecVars, routerVars>>

\* the close callback
Q_closeDone ==
    /\ portState = "closing"
    /\ NoMicrotask
    /\ portState' = "closed"
    /\ initialized' = FALSE
    /\ UNCHANGED <<opener, isClosing, timersFresh, timersDue, pc, tx>>
    /\ UNCHANGED <<pduVars, queueVars, gsmVars, codecVars, routerVars>>

NextQueue ==
    \/ Q_onModuleInit
    \/ Q_openOk
    \/ \E p \in QInitProcs : Q_initStep(p)
    \/ \E p \in QInitProcs : Q_pauseDone(p)
    \/ \E phonenumber \in Phones : Q_sendSms(phonenumber)
    \/ Q_consumerStep
    \/ Q_nextMessage
    \/ \E data \in QueueLines : Q_data(data)
    \/ Q_incomingStep
    \/ Q_cleanupMemory
    \/ Q_cleanupStep
    \/ \E p \in QueueProcs : Q_timeout(p)
    \/ \E p \in QueueProcs : Q_writeError(p)
    \/ Q_tick
    \/ Q_onModuleDestroy
    \/ Q_closeDone

SpecQueue == InitQueue /\ [][NextQueue]_vars

(***************************************************************************)
(* The gsm service with the reconnect loop (gsm.service.ts:19-277)         *)
(***************************************************************************)
\* the alert test were it a threshold test: reconnectAttempts >= 5
alertDue_mut(n) == n >= alertThreshold

\* the test that decides the alert mail: reconnectAttempts === 5
alertDue(n) == n = alertThreshold

InitGsm ==
    /\ portState = "closed"
    /\ opener = "none"
    /\ isClosing = FALSE
    /\ timersFresh = 0
    /\ timersDue = 0
    /\ initialized = FALSE
    /\ pc = [p \in {"svc"} |-> "new"]
    /\ tx = [p \in {"svc"} |-> NoTx]
    /\ attempt = [j \in Jobs |-> 0]
    /\ backoff = [j \in Jobs |-> 0]
    /\ result = [j \in Jobs |-> NoResult]
    /\ input = [j \in Jobs |-> "none"]
    /\ messageQueue = <<>>
    /\ isProcessing = FALSE
    /\ cooldown = 0
    /\ current = "none"
    /\ outcome = <<>>
    /\ isConnected = FALSE
    /\ reconnectInterval = FALSE
    /\ intervalActive = 0
    /\ reconnectAttempts = 0
    /\ modemState = "closed"
    /\ mailPending = 0
    /\ alertsSinceOpen = 0
    /\ lastOpen = "none"
    /\ modemInitialized = FALSE
    /\ codecIn = NoCodecIn
    /\ codecOut = NoCodecOut
    /\ otpKey = "undefined"
    /\ inbound = NoInbound
    /\ handlers = NoHandlers

\* initializeModem: the gsm service calls this.modem.removeAllListeners() and
\* registers one handler per event; part_008 only registers.  MaxHandlers
\* stands for MaxHandlers or more.
registered(build, n) ==
    IF build = "gsm" THEN 1
    ELSE IF n < MaxHandlers THEN n + 1 ELSE MaxHandlers

\* initializeModem: removeAllListeners, modem.open, the handlers registered
\* again; an open of a modem that is open or opening changes nothing
modemAfterInitialize == IF modemState = "closed" THEN "opening" ELSE modemState

\* what the modem.open call of initializeModem finds: the modem closed, or a
\* previous open still in progress or open
openKind == IF modemState = "closed" THEN "fresh" ELSE "overlapping"

\* startReconnectLoop: a no-op when a handle is stored, else setInterval
loopsAfterStart == IF reconnectInterval THEN intervalActive ELSE intervalActive + 1

\* onModuleInit
G_onModuleInit ==
    /\ pc["svc"] = "new"
    /\ pc' = [pc EXCEPT !["svc"] = "started"]
    /\ modemState' = modemAfterInitialize
    /\ lastOpen' = openKind
    /\ handlers' = [b \in Builds |-> registered(b, handlers[b])]
    /\ UNCHANGED <<portState, opener, isClosing, timersFresh, timersDue, initialized, tx>>
    /\ UNCHANGED <<isConnected, reconnectInterval, intervalActive, reconnectAttempts,
                   mailPending, alertsSinceOpen, modemInitialized>>
    /\ UNCHANGED <<pduVars, queueVars, codecVars, otpKey, inbound>>

\* the 'open' handler were it to leave the interval alone
intervalAfterOpen_mut(handle, active) == active

\* the 'open' handler: if (this.reconnectInterval) { clearInterval(...);
\* this.reconnectInterval = undefined }
intervalAfterOpen(handle, active) == IF handle THEN 0 ELSE active

\* the 'open' handler: isConnected = true before modem.initializeModem,
\* setModemMode, checkModem and getNetworkSignal are issued
G_open ==
    /\ modemState = "opening"
    /\ modemState' = "open"
    /\ isConnected' = TRUE
    /\ reconnectAttempts' = 0
    /\ alertsSinceOpen' = 0
    /\ reconnectInterval' = FALSE
    /\ intervalActive' = intervalAfterOpen(reconnectInterval, intervalActive)
    /\ modemInitialized' = FALSE
    /\ UNCHANGED <<mailPending, lastOpen>>
    /\ UNCHANGED <<serialVars, pduVars, queueVars, codecVars, routerVars>>

\* the callback of modem.initializeModem: the setup commands have run
G_initialized ==
    /\ modemState = "open"
    /\ ~modemInitialized
    /\ modemInitialized' = TRUE
    /\ UNCHANGED <<isConnected, reconnectInterval, intervalActive, reconnectAttempts,
                   modemState, mailPending, alertsSinceOpen, lastOpen>>
    /\ UNCHANGED <<serialVars, pduVars, queueVars, codecVars, routerVars>>

\* the open fails: the 'error' handler only logs
G_openFailed ==
    /\ modemState = "opening"
    /\ modemState' = "closed"
    /\ UNCHANGED <<isConnected, reconnectInterval, intervalActive, reconnectAttempts,
                   mailPending, alertsSinceOpen, lastOpen, modemInitialized>>
    /\ UNCHANGED <<serialVars, pduVars, queueVars, codecVars, routerVars>>

\* the 'close' handler
G_close ==
    /\ modemState \in {"open", "closing"}
    /\ modemState' = "closed"
    /\ isConnected' = FALSE
    /\ modemInitialized' = FALSE
    /\ IF isClosing
       THEN UNCHANGED <<reconnectInterval, intervalActive>>
       ELSE /\ reconnectInterval' = TRUE
            /\ intervalActive' = loopsAfterStart
    /\ UNCHANGED <<reconnectAttempts, mailPending, alertsSinceOpen, lastOpen>>
    /\ UNCHANGED <<serialVars, pduVars, queueVars, codecVars, routerVars>>

\* the setInterval callback up to its first await
G_reconnectTick ==
    /\ intervalActive > 0
    /\ IF isConnected \/ isClosing
       THEN /\ intervalActive' = IF reconnectInterval THEN intervalActive - 1
                                 ELSE intervalActive
            /\ reconnectInterval' = FALSE
            /\ UNCHANGED <<reconnectAttempts, mailPending, alertsSinceOpen, modemState,
                           lastOpen, handlers>>
       ELSE /\ reconnectAttempts < MaxAttempts
            /\ reconnectAttempts' = reconnectAttempts + 1
            /\ IF alertDue(reconnectAttempts + 1)
               THEN /\ mailPending < MaxMail
                    /\ alertsSinceOpen < MaxMail
                    /\ mailPending' = mailPending + 1
                    /\ alertsSinceOpen' = alertsSinceOpen + 1
                    /\ UNCHANGED <<modemState, lastOpen, handlers>>
               ELSE /\ modemState' = modemAfterInitialize
                    /\ lastOpen' = openKind
                    /\ handlers' = [b \in Builds |-> registered(b, handlers[b])]
                    /\ UNCHANGED <<mailPending, alertsSinceOpen>>
            /\ UNCHANGED <<reconnectInterval, intervalActive>>
    /\ UNCHANGED <<isConnected, modemInitialized>>
    /\ UNCHANGED <<serialVars, pduVars, queueVars, codecVars, otpKey, inbound>>

\* mailService.sendMail settles: the tick goes on to initializeModem when the
\* mail was sent; when sendMail throws the callback ends with the exception
G_mailDone(sent) ==
    /\ mailPending > 0
    /\ mailPending' = mailPending - 1
    /\ modemState' = IF sent THEN modemAfterInitialize ELSE modemState
    /\ lastOpen' = IF sent THEN openKind ELSE lastOpen
    /\ handlers' = IF sent THEN [b \in Builds |-> registered(b, handlers[b])]
                   ELSE handlers
    /\ UNCHANGED <<isConnected, reconnectInterval, intervalActive, reconnectAttempts,
                   alertsSinceOpen, modemInitialized>>
    /\ UNCHANGED <<serialVars, pduVars, queueVars, codecVars, otpKey, inbound>>

\* onModuleDestroy: isClosing = true, clearInterval, modem.close
G_onModuleDestroy ==
    /\ pc["svc"] = "started"
    /\ ~isClosing
    /\ isClosing' = TRUE
    /\ intervalActive' = IF reconnectInterval THEN 0 ELSE intervalActive
    /\ modemState' = IF modemState = "open" THEN "closing" ELSE modemState
    /\ UNCHANGED <<portState, opener, timersFresh, timersDue, initialized, pc, tx>>
    /\ UNCHANGED <<isConnected, reconnectInterval, reconnectAttempts, mailPending,
                   alertsSinceOpen, lastOpen, modemInitialized>>
    /\ UNCHANGED <<pduVars, queueVars, codecVars, routerVars>>

NextGsm ==
    \/ G_onModuleInit
    \/ G_open
    \/ G_initialized
    \/ G_openFailed
    \/ G_close
    \/ G_reconnectTick
    \/ \E sent \in BOOLEAN : G_mailDone(sent)
    \/ G_onModuleDestroy

SpecGsm == InitGsm /\ [][NextGsm]_vars

(***************************************************************************)
(* The PDU builders: buildPDU of the PDU service (gsm.service.ts:764-800)  *)
(* and of part_001:118-133, each called from its sendSms.  A number is the *)
(* sequence of its characters.                                             *)
(***************************************************************************)
MaxChars == 72
MaxDigits == 3
Builders == {"service", "part_001"}
maxOctets == 140
maxPayloadChars == 70
localDigits == 8
smscDigits == 11

Digits == {"0", "1", "2", "3", "4", "5", "6", "7", "8", "9"}
SampleDigits == {"5", "6"}
defaultSmsc == <<"9", "9", "3", "6", "5", "9", "9", "9", "9", "9", "6">>
countryCode == <<"+", "9", "9", "3">>
ShortNumbers == UNION {[1..k -> SampleDigits] : k \in 1..MaxDigits}

\* the phonenumber of a request: short strings and two subscriber numbers
Destinations ==
    ShortNumbers \cup {<<"6", "5", "1", "2", "3", "4", "5", "6">>,
                       <<"6", "3", "4", "1", "2", "1", "1", "4">>}

\* the configured SMSC_NUMBER
Smscs == ShortNumbers \cup {defaultSmsc, <<"+">> \o defaultSmsc}

\* number.startsWith('+') ? number.slice(1) : number
stripPlus(number) ==
    IF Len(number) > 0 /\ number[1] = "+" THEN Tail(number) ELSE number

\* /^\d+$/.test(s)
numeric(s) == Len(s) > 0 /\ \A i \in 1..Len(s) : s[i] \in Digits

\* /^\d{n}$/.test(s)
digitsExactly(s, n) == Len(s) = n /\ numeric(s)

\* s.slice(-8)
lastEight(s) == IF Len(s) <= 8 THEN s ELSE SubSeq(s, Len(s) - 7, Len(s))

\* s.match(/../g).map(p => p[1] + p[0]).join(''): the pairs of s from the
\* left, each swapped; a last character without a partner is in no pair
swapPairs(s) ==
    [i \in 1..(2 * (Len(s) \div 2)) |-> IF i % 2 = 1 THEN s[i + 1] ELSE s[i - 1]]

\* encodePhoneNumber: part_001 strips the '+' from number and pads number;
\* the service tests the stripped copy `cleaned` and pads and pairs number
\* itself, its '+' included
encodePhoneNumber(builder, number) ==
    IF builder = "service"
    THEN swapPairs(IF Len(stripPlus(number)) % 2 # 0
                   THEN Append(number, "F") ELSE number)
    ELSE swapPairs(IF Len(stripPlus(number)) % 2 # 0
                   THEN Append(stripPlus(number), "F") ELSE stripPlus(number))

\* n.toString(16).padStart(2, '0').length
hexChars(n) == IF n < 256 THEN 2 ELSE 3

\* encodeUCS2: two octets for every UTF-16 code unit of the text
msgOctets(chars) == 2 * chars

\* the kind of data a request is to the checks of sendSms
inputKind(phonenumber, chars) ==
    IF ~digitsExactly(phonenumber, localDigits) THEN "badNumber"
    ELSE IF chars > maxPayloadChars THEN "tooLong" ELSE "valid"

\* `+993${phoneStr}` of the service, `+993${phonenumber.slice(-8)}` of part_001
fullNumberOf_mut(builder, phonenumber) ==
    IF builder = "service" THEN phonenumber ELSE lastEight(phonenumber)

fullNumberOf(builder, phonenumber) ==
    IF builder = "service"
    THEN countryCode \o phonenumber
    ELSE countryCode \o lastEight(phonenumber)

NoFrame ==
    [built |-> FALSE, smscLength |-> 0, smscEncoded |-> <<>>, smscAddr |-> <<>>,
     recipientLength |-> 0, recipientEncoded |-> <<>>, udl |-> 0, octets |-> 0,
     pduLength |-> 0]

\* the SMSC address as the frame holds it after the length octet: the
\* service puts the type octet '91' before the number, part_001 does not
smscAddrOf(builder, smsc) ==
    IF builder = "service"
    THEN <<"9", "1">> \o encodePhoneNumber(builder, stripPlus(smsc))
    ELSE encodePhoneNumber(builder, smsc)

\* the characters of `${smscLength}${smscAddr}1100${recipientLength}91
\* ${recipientEncoded}0008${msgLength}${msgUCS2}`
pduChars(builder, smsc, recipient, chars) ==
    hexChars(Len(smscAddrOf(builder, smsc)) \div 2)
    + Len(smscAddrOf(builder, smsc)) + 4
    + hexChars(IF builder = "service" THEN Len(stripPlus(recipient))
               ELSE Len(recipient))
    + 2 + Len(encodePhoneNumber(builder, recipient)) + 4
    + hexChars(msgOctets(chars)) + 2 * msgOctets(chars)

\* buildPDU: the service's builder throws for a number that is not numeric
\* and returns a failure object for more than 140 octets; the builder of
\* part_001 has no test and announces any length.  pduLength: the service
\* subtracts the SMSC length octet and the SMSC address octets, part_001
\* subtracts 1 and half the length of the two-character smscLength
buildPDU(builder, smsc, recipient, chars) ==
    IF builder = "service" /\ ~(numeric(stripPlus(smsc)) /\ numeric(stripPlus(recipient)))
    THEN NoFrame @@ [stage |-> "threw", fullNumber |-> recipient, written |-> FALSE]
    ELSE IF builder = "service" /\ msgOctets(chars) > maxOctets
    THEN NoFrame @@ [stage |-> "returned", fullNumber |-> recipient, written |-> FALSE]
    ELSE [stage |-> "returned",
          fullNumber |-> recipient,
          built |-> TRUE,
          smscLength |-> Len(smscAddrOf(builder, smsc)) \div 2,
          smscEncoded |-> encodePhoneNumber(builder, stripPlus(smsc)),
          smscAddr |-> smscAddrOf(builder, smsc),
          recipientLength |-> IF builder = "service"
                              THEN Len(stripPlus(recipient)) ELSE Len(recipient),
          recipientEncoded |-> encodePhoneNumber(builder, recipient),
          udl |-> msgOctets(chars),
          octets |-> pduChars(builder, smsc, recipient, chars) \div 2,
          pduLength |-> IF builder = "service"
                        THEN pduChars(builder, smsc, recipient, chars) \div 2
                             - 1 - Len(smscAddrOf(builder, smsc)) \div 2
                        ELSE pduChars(builder, smsc, recipient, chars) \div 2
                             - hexChars(Len(smscAddrOf(builder, smsc)) \div 2) \div 2
                             - 1,
          written |-> FALSE]

InitCodec ==
    /\ portState = "closed"
    /\ opener = "none"
    /\ isClosing = FALSE
    /\ timersFresh = 0
    /\ timersDue = 0
    /\ initialized = FALSE
    /\ pc = [p \in {"svc"} |-> "new"]
    /\ tx = [p \in {"svc"} |-> NoTx]
    /\ attempt = [j \in Jobs |-> 0]
    /\ backoff = [j \in Jobs |-> 0]
    /\ result = [j \in Jobs |-> NoResult]
    /\ input = [j \in Jobs |-> "none"]
    /\ messageQueue = <<>>
    /\ isProcessing = FALSE
    /\ cooldown = 0
    /\ current = "none"
    /\ outcome = <<>>
    /\ isConnected = FALSE
    /\ reconnectInterval = FALSE
    /\ intervalActive = 0
    /\ reconnectAttempts = 0
    /\ modemState = "closed"
    /\ mailPending = 0
    /\ alertsSinceOpen = 0
    /\ lastOpen = "none"
    /\ modemInitialized = FALSE
    /\ codecIn \in [builder : Builders, smsc : Smscs, recipient : Destinations,
                    chars : 0..MaxChars]
    /\ codecOut = NoCodecOut
    /\ otpKey = "undefined"
    /\ inbound = NoInbound
    /\ handlers = NoHandlers

\* sendSms up to the call of buildPDU: the service returns a failure for a
\* request that fails its checks or an SMSC that is not 11 digits; part_001
\* has no check.  Both put the country code before the number.
K_sendSms ==
    /\ codecOut.stage = "none"
    /\ codecOut' = IF codecIn.builder = "service"
                      /\ (\/ validate(inputKind(codecIn.recipient, codecIn.chars)) # ""
                          \/ ~digitsExactly(codecIn.smsc, smscDigits))
                   THEN [codecOut EXCEPT !.stage = "rejected"]
                   ELSE [codecOut EXCEPT
                            !.stage = "called",
                            !.fullNumber = fullNumberOf(codecIn.builder,
                                                        codecIn.recipient)]
    /\ UNCHANGED <<serialVars, pduVars, queueVars, gsmVars, codecIn, routerVars>>

\* const { pdu, pduLength } = this.buildPDU(smsc, fullNumber, payload)
K_buildPDU ==
    /\ codecOut.stage = "called"
    /\ codecOut' = buildPDU(codecIn.builder, codecIn.smsc, codecOut.fullNumber,
                            codecIn.chars)
    /\ UNCHANGED <<serialVars, pduVars, queueVars, gsmVars, codecIn, routerVars>>

\* the next statement of the caller: sendCommand(`AT+CMGS=${pduLength}`)
K_cmgs ==
    /\ codecOut.stage = "returned"
    /\ codecOut' = [codecOut EXCEPT !.stage = "written", !.written = TRUE]
    /\ UNCHANGED <<serialVars, pduVars, queueVars, gsmVars, codecIn, routerVars>>

NextCodec ==
    \/ K_sendSms
    \/ K_buildPDU
    \/ K_cmgs

SpecCodec == InitCodec /\ [][NextCodec]_vars

(***************************************************************************)
(* The send queue of the gsm service: sendSms, enqueueMessage,             *)
(* processQueue and _sendSmsInternal (gsm.service.ts:168-214), called by   *)
(* GsmController.sendSMS and by the checkBalance cron                      *)
(***************************************************************************)
MaxCalls == 3
Consumers == {"c1", "c2"}
OtpKeys == {"undefined", "secret"}
shortCode == <<"0", "8", "0", "0">>
adminDefault == <<"6", "3", "4", "1", "2", "1", "1", "4">>

\* the phonenumber of a request of the broker
Requested ==
    {shortCode, adminDefault, <<"9", "9", "3">> \o adminDefault,
     <<"1", "2", "3", "4", "5">>}

NoMsg == [id |-> 0, phonenumber |-> <<>>]

\* the tests were they absent: processQueue runs on every enqueue
consumerStarts_mut(processing) == TRUE

\* `if (!this.isProcessing) this.processQueue()` of enqueueMessage and
\* `if (this.isProcessing) return` of processQueue
consumerStarts(processing) == ~processing

\* _sendSmsInternal: normalized === '0800' ? normalized
\*                                         : `+993${normalized.slice(-8)}`
fullOf(phonenumber) ==
    IF phonenumber = shortCode THEN phonenumber
    ELSE countryCode \o lastEight(phonenumber)

\* _sendSmsInternal(msg) up to modem.sendSMS(full, payload, false, callback)
issue(calls, msg) ==
    [calls EXCEPT ![msg.id].full = fullOf(msg.phonenumber),
                  ![msg.id].status = "sending"]

\* what sendSms returns and records for a call: undefined when key is not
\* OTP_KEY, else the message is queued
\* sendSms were it to take every key
keyMatches_mut(key) == TRUE

\* the test of sendSms, negated there: key !== configService.get('OTP_KEY')
keyMatches(key) == key = otpKey

callOf(phonenumber, caller, key) ==
    [phonenumber |-> phonenumber, caller |-> caller,
     returned |-> IF ~keyMatches(key) THEN "undefined" ELSE "queued",
     full |-> <<>>,
     status |-> IF ~keyMatches(key) THEN "dropped" ELSE "queued"]

\* sendSms for every number of list, one call after the other, each with its
\* enqueueMessage: push, and processQueue when no consumer is running;
\* processQueue runs up to its first await: isProcessing = true, shift,
\* _sendSmsInternal
enqueueAll(list, caller) ==
    LET msgs == [i \in 1..Len(list) |->
                    [id |-> Len(outcome) + i, phonenumber |-> list[i]]]
        calls == outcome \o [i \in 1..Len(list) |-> callOf(list[i], caller, otpKey)]
        queue == messageQueue \o msgs
    IN  IF list # <<>> /\ consumerStarts(isProcessing)
           /\ \E c \in Consumers : pc[c] = "idle"
        THEN /\ isProcessing' = TRUE
             /\ messageQueue' = Tail(queue)
             /\ current' = [current EXCEPT
                               ![CHOOSE c \in Consumers : pc[c] = "idle"] = Head(queue)]
             /\ pc' = [pc EXCEPT ![CHOOSE c \in Consumers : pc[c] = "idle"] = "sending"]
             /\ outcome' = issue(calls, Head(queue))
        ELSE /\ messageQueue' = queue
             /\ outcome' = calls
             /\ UNCHANGED <<isProcessing, current, pc>>

InitGsmSend ==
    /\ portState = "closed"
    /\ opener = "none"
    /\ isClosing = FALSE
    /\ timersFresh = 0
    /\ timersDue = 0
    /\ initialized = FALSE
    /\ pc = [p \in {"svc"} \cup Consumers |-> IF p = "svc" THEN "new" ELSE "idle"]
    /\ tx = [p \in {"svc"} |-> NoTx]
    /\ attempt = [j \in Jobs |-> 0]
    /\ backoff = [j \in Jobs |-> 0]
    /\ result = [j \in Jobs |-> NoResult]
    /\ input = [j \in Jobs |-> "none"]
    /\ messageQueue = <<>>
    /\ isProcessing = FALSE
    /\ cooldown = 0
    /\ current = [c \in Consumers |-> NoMsg]
    /\ outcome = <<>>
    /\ isConnected = FALSE
    /\ reconnectInterval = FALSE
    /\ intervalActive = 0
    /\ reconnectAttempts = 0
    /\ modemState = "closed"
    /\ mailPending = 0
    /\ alertsSinceOpen = 0
    /\ lastOpen = "none"
    /\ modemInitialized = FALSE
    /\ codecIn = NoCodecIn
    /\ codecOut = NoCodecOut
    /\ otpKey \in OtpKeys
    /\ inbound = NoInbound
    /\ handlers = NoHandlers

\* GsmController.sendSMS: this.gsmService.sendSms({payload, phonenumber}),
\* no key among the properties
G_sendSms(phonenumber) ==
    /\ pc["svc"] = "started"
    /\ Len(outcome) < MaxCalls
    /\ IF ~keyMatches("undefined")
       THEN /\ outcome' = Append(outcome, callOf(phonenumber, "controller", "undefined"))
            /\ UNCHANGED <<messageQueue, isProcessing, current, pc>>
       ELSE enqueueAll(<<phonenumber>>, "controller")
    /\ UNCHANGED <<portState, opener, isClosing, timersFresh, timersDue, initialized, tx>>
    /\ UNCHANGED cooldown
    /\ UNCHANGED <<pduVars, gsmVars, codecVars, routerVars>>

\* the checkBalance cron: sendSms({phonenumber: '0800', payload: 'BALANCE',
\* key: OTP_KEY}) when the modem is connected
G_checkBalance ==
    /\ pc["svc"] = "started"
    /\ Len(outcome) < MaxCalls
    /\ isConnected
    /\ enqueueAll(<<shortCode>>, "cron")
    /\ UNCHANGED <<portState, opener, isClosing, timersFresh, timersDue, initialized, tx>>
    /\ UNCHANGED cooldown
    /\ UNCHANGED <<pduVars, gsmVars, codecVars, routerVars>>

\* the callback of modem.sendSMS with status 'success': _sendSmsInternal
\* resolves and processQueue waits 3000 ms
G_sendDone(c) ==
    /\ pc["svc"] = "started"
    /\ pc[c] = "sending"
    /\ modemState = "open"
    /\ pc' = [pc EXCEPT ![c] = "delay"]
    /\ outcome' = [outcome EXCEPT ![current[c].id].status = "sent"]
    /\ UNCHANGED <<portState, opener, isClosing, timersFresh, timersDue, initialized, tx>>
    /\ UNCHANGED <<messageQueue, isProcessing, cooldown, current>>
    /\ UNCHANGED <<pduVars, gsmVars, codecVars, routerVars>>

\* the callback with another status: _sendSmsInternal rejects and, there
\* being no try in processQueue, so does the promise of processQueue, which
\* nobody awaits: isProcessing stays true; node ends the process on the
\* unhandled rejection or goes on, as it is configured
G_sendFailed(c, exits) ==
    /\ pc["svc"] = "started"
    /\ pc[c] = "sending"
    /\ pc' = [pc EXCEPT ![c] = "dead", !["svc"] = IF exits THEN "exited" ELSE @]
    /\ outcome' = [outcome EXCEPT ![current[c].id].status = "failed"]
    /\ UNCHANGED <<portState, opener, isClosing, timersFresh, timersDue, initialized, tx>>
    /\ UNCHANGED <<messageQueue, isProcessing, cooldown, current>>
    /\ UNCHANGED <<pduVars, gsmVars, codecVars, routerVars>>

\* the 3000 ms are over: the while test, then shift and _sendSmsInternal, or
\* isProcessing = false
G_delayDone(c) ==
    /\ pc["svc"] = "started"
    /\ pc[c] = "delay"
    /\ IF messageQueue # <<>>
       THEN /\ current' = [current EXCEPT ![c] = Head(messageQueue)]
            /\ messageQueue' = Tail(messageQueue)
            /\ pc' = [pc EXCEPT ![c] = "sending"]
            /\ outcome' = issue(outcome, Head(messageQueue))
            /\ UNCHANGED isProcessing
       ELSE /\ isProcessing' = FALSE
            /\ current' = [current EXCEPT ![c] = NoMsg]
            /\ pc' = [pc EXCEPT ![c] = "idle"]
            /\ UNCHANGED <<messageQueue, outcome>>
    /\ UNCHANGED <<portState, opener, isClosing, timersFresh, timersDue, initialized, tx>>
    /\ UNCHANGED cooldown
    /\ UNCHANGED <<pduVars, gsmVars, codecVars, routerVars>>

NextGsmSend ==
    \/ G_onModuleInit
    \/ G_open
    \/ G_openFailed
    \/ \E phonenumber \in Requested : G_sendSms(phonenumber)
    \/ G_checkBalance
    \/ \E c \in Consumers : G_sendDone(c)
    \/ \E c \in Consumers, exits \in BOOLEAN : G_sendFailed(c, exits)
    \/ \E c \in Consumers : G_delayDone(c)

SpecGsmSend == InitGsmSend /\ [][NextGsmSend]_vars

(***************************************************************************)
(* Incoming messages: the onNewMessage handler and handleBalanceMessage of *)
(* the gsm service (gsm.service.ts:113-127, 257-276) and the routing and   *)
(* handleBalanceMessage of part_005 (222-233, 275-291)                     *)
(***************************************************************************)
MaxAmountDigits == 2
balanceThreshold == 10
Variants == {"gsm", "part_005"}
AmountDigits == {"0", "1", "5"}
WholeParts == UNION {[1..k -> AmountDigits] : k \in 1..MaxAmountDigits}
Fractions == {<<>>, <<".", "5">>, <<",", "5">>}

\* what stands before the word after the amount in the body: a number with
\* or without decimals, nothing, or a lone separator
Amounts == {w \o f : w \in WholeParts, f \in Fractions} \cup {<<>>, <<".">>, <<",">>}
Senders == {shortCode, adminDefault}

\* OTP_ADMIN_PHONENUMBER split at '?'
AdminLists ==
    {<<adminDefault>>, <<adminDefault, <<"6", "5", "1", "2", "3", "4", "5", "6">> >>}

\* messageBody.match(/([\d,.]+)\s*manat/): the matched group, else 'Unknown'
balanceOf(amount, manat) ==
    IF manat /\ amount # <<>> THEN amount
    ELSE <<"U", "n", "k", "n", "o", "w", "n">>

\* balance.replace(',', '.'): the first comma only
RECURSIVE replaceComma(_)
replaceComma(str) ==
    IF str = <<>> THEN <<>>
    ELSE IF Head(str) = "," THEN <<".">> \o Tail(str)
    ELSE <<Head(str)>> \o replaceComma(Tail(str))

RECURSIVE leadingDigits(_)
leadingDigits(str) ==
    IF str = <<>> \/ Head(str) \notin Digits THEN 0
    ELSE 1 + leadingDigits(Tail(str))

digitValue(d) ==
    (CHOOSE i \in 1..10 :
        <<"0", "1", "2", "3", "4", "5", "6", "7", "8", "9">>[i] = d) - 1

RECURSIVE wholeValue(_)
wholeValue(digits) ==
    IF digits = <<>> THEN 0
    ELSE 10 * wholeValue(SubSeq(digits, 1, Len(digits) - 1))
         + digitValue(digits[Len(digits)])

\* parseFloat: the longest prefix that is a decimal number; NaN when there
\* is no digit at its start, a point before the first digit allowed.  The
\* fraction is less than 1 and left out: only `< 10` is asked of the value.
parseFloat(str) ==
    LET n == leadingDigits(str) IN
    [nan |-> n = 0 /\ ~(Len(str) >= 2 /\ str[1] = "." /\ str[2] \in Digits),
     whole |-> wholeValue(SubSeq(str, 1, n))]

\* handleBalanceMessage: the numbers it calls sendSms for.  The gsm service
\* asks !isNaN(numericBalance) && numericBalance < 10; part_005 has no test.
refillAlerts(variant, amount, manat, admins) ==
    IF variant = "part_005" THEN admins
    ELSE IF ~parseFloat(replaceComma(balanceOf(amount, manat))).nan
            /\ parseFloat(replaceComma(balanceOf(amount, manat))).whole < balanceThreshold
    THEN admins ELSE <<>>

InitBalance ==
    /\ portState = "closed"
    /\ opener = "none"
    /\ isClosing = FALSE
    /\ timersFresh = 0
    /\ timersDue = 0
    /\ initialized = FALSE
    /\ pc = [p \in {"svc"} \cup Consumers |-> IF p = "svc" THEN "started" ELSE "idle"]
    /\ tx = [p \in {"svc"} |-> NoTx]
    /\ attempt = [j \in Jobs |-> 0]
    /\ backoff = [j \in Jobs |-> 0]
    /\ result = [j \in Jobs |-> NoResult]
    /\ input = [j \in Jobs |-> "none"]
    /\ messageQueue = <<>>
    /\ isProcessing = FALSE
    /\ cooldown = 0
    /\ current = [c \in Consumers |-> NoMsg]
    /\ outcome = <<>>
    /\ isConnected = TRUE
    /\ reconnectInterval = FALSE
    /\ intervalActive = 0
    /\ reconnectAttempts = 0
    /\ modemState = "open"
    /\ mailPending = 0
    /\ alertsSinceOpen = 0
    /\ lastOpen = "fresh"
    /\ modemInitialized = TRUE
    /\ codecIn = NoCodecIn
    /\ codecOut = NoCodecOut
    /\ otpKey \in OtpKeys
    /\ inbound \in [variant : Variants, sender : Senders, amount : Amounts,
                    manat : BOOLEAN, admins : AdminLists, stage : {"arrived"}]
    /\ handlers = [b \in Builds |-> 1]

\* the message handler: a message of '0800' goes to handleBalanceMessage,
\* any other is logged
B_onNewMessage ==
    /\ inbound.stage = "arrived"
    /\ inbound' = [inbound EXCEPT !.stage =
                      IF inbound.sender = shortCode THEN "balance" ELSE "logged"]
    /\ UNCHANGED <<serialVars, pduVars, queueVars, gsmVars, codecVars, otpKey, handlers>>

\* handleBalanceMessage: sendSms, with the key of the service itself, for
\* every administrator number
B_handleBalanceMessage ==
    /\ inbound.stage = "balance"
    /\ inbound' = [inbound EXCEPT !.stage = "handled"]
    /\ enqueueAll(refillAlerts(inbound.variant, inbound.amount, inbound.manat,
                               inbound.admins), "balance")
    /\ UNCHANGED <<portState, opener, isClosing, timersFresh, timersDue, initialized, tx>>
    /\ UNCHANGED cooldown
    /\ UNCHANGED <<pduVars, gsmVars, codecVars, otpKey, handlers>>

NextBalance ==
    \/ B_onNewMessage
    \/ B_handleBalanceMessage
    \/ \E c \in Consumers : G_sendDone(c)
    \/ \E c \in Consumers : G_delayDone(c)

SpecBalance == InitBalance /\ [][NextBalance]_vars

(***************************************************************************)
(* Claims on the PDU service                                               *)
(***************************************************************************)
Last(seq) == seq[Len(seq)]
ErrorLine(data) == includes(data, "+CMS ERROR") \/ includes(data, "+CME ERROR")

\* C2: jobs are processed in arrival order: no attempt of job2 is made before
\* job1, which arrived first, has resolved (all of job1's retries included).
C2_FifoOrder ==
    attempt["job2"] >= 1 => pc["job1"] = "done"

\* C3: a job whose send was answered with '+CMS ERROR' is reported failed only
\* after maxRetries attempts, with the message 'Failed to send SMS after 3
\* attempts'.
C3_CmsErrorRetried ==
    \A j \in Jobs :
        (pc[j] = "done" /\ textIncludes(result[j].detail, "+CMS ERROR"))
            => /\ attempt[j] = maxRetries
               /\ ~result[j].success
               /\ result[j].message = "Failed to send SMS after 3 attempts"

\* C5: at most one reconnect timer is pending at any time.
C5_OneReconnectTimer ==
    TimerCount <= 1

\* C7: a transaction that ends by its timer ends as a failure, not before its
\* deadline, and carries the accumulated response.
C7_TimeoutFails ==
    \A p \in DOMAIN tx :
        tx[p].cause = "timeout"
            => /\ tx[p].st = "rejected"
               /\ tx[p].elapsed >= tx[p].timeout

\* C8: a transaction that received a line with an error token ends rejected
\* with a modem error, whatever its terminator list.
C8_ErrorTokenFails ==
    \A p \in DOMAIN tx :
        (Settled(p) /\ tx[p].response # <<>> /\ ErrorLine(Last(tx[p].response)))
            => /\ tx[p].st = "rejected"
               /\ tx[p].cause = "modemError"

\* C9: a command issued while another transaction is outstanding is never
\* written to the channel.
C9_BusyRejected ==
    \A p \in DOMAIN tx :
        Active(p) => ~tx[p].busy

\* C10: a send command of a job is written only when the session was Ready
\* at the call.
C10_OnlyWhenReady ==
    \A j \in Jobs :
        Active(j) => tx[j].ready

\* C6: a job that came due while the port was not open is not reported as
\* finally failed (the consumer waits for the session instead).
C6_WaitsForSession ==
    \A j \in Jobs :
        pc[j] = "done" => result[j].message # "Port not open. Waiting for reconnect."

\* an awaited command of initializeModem has failed: rejected, or ended by
\* its timer without a terminator
InitStepFailed(p) ==
    /\ pc[p] \in InitSteps
    /\ Settled(p)
    /\ (tx[p].st = "rejected" \/ tx[p].cause = "timeout")

\* C11: initialize is atomic: after a setup command has failed (a timeout
\* included) the run issues no later setup command and does not make the
\* session Ready.
C11_InitializeAtomic ==
    [][\A p \in InitProcs :
          (InitStepFailed(p) /\ pc'[p] # pc[p])
              => (pc'[p] \notin InitSteps /\ ~initialized')]_vars

\* C12: a job whose data fails validation is reported failed at once: it
\* makes no attempt, is never retried and writes nothing to the channel.
C12_ValidationNotRetried ==
    \A j \in Jobs :
        input[j] \in {"badNumber", "tooLong"}
            => /\ pc[j] = "done"
               /\ attempt[j] = 0
               /\ tx[j] = NoTx
               /\ ~result[j].success

\* both kinds of invalid data have been handed to sendSms
C12_Witness ==
    /\ input["job1"] = "badNumber" /\ pc["job1"] = "done"
    /\ input["job2"] = "tooLong" /\ pc["job2"] = "done"

\* C13: no job makes more than maxRetries attempts, and a job has no command
\* outstanding while it waits for its next attempt or after it has ended, so
\* two attempts of one job never transmit at the same time.
C13_AttemptsBounded ==
    \A j \in Jobs :
        /\ attempt[j] <= maxRetries
        /\ pc[j] \in {"idle", "backoff", "done"} => tx[j] = NoTx

\* the last allowed attempt of a job is transmitting
C13_Witness ==
    /\ attempt["job1"] = maxRetries
    /\ Active("job1")

\* C14: a failure to open the port only starts the reconnect backoff: it
\* never makes onModuleInit fail.
C14_OpenErrorNotFatal ==
    pc["init"] # "openFailed"

\* C16: once onModuleDestroy has run the port does not become open again,
\* also when an open was in progress at the call.
C16_ClosedStaysClosed ==
    [][(isClosing /\ portState # "open") => portState' # "open"]_vars

(***************************************************************************)
(* Claims on the queue service                                             *)
(***************************************************************************)
\* C1: at every instant at most one sendCommand transaction is outstanding
\* on the serial channel.
C1_OneTransaction ==
    Cardinality(Outstanding) <= 1

\* C17: on shutdown the port is not closed while a command of the job in
\* flight is outstanding.
C17_NoCloseMidCommand ==
    portState \in {"closing", "closed"} => ~Active("consumer")

(***************************************************************************)
(* Claims on the gsm service                                               *)
(***************************************************************************)
\* C4: the alert mail is sent exactly once when reconnectAttempts reaches 5
\* and not again before an 'open' event has reset the counter: the number of
\* sendMail calls since the last 'open' is 1 from the fifth attempt on and 0
\* before it.
C4_AlertOncePerOutage ==
    alertsSinceOpen = IF reconnectAttempts >= alertThreshold THEN 1 ELSE 0

\* a tick after the one that sent the mail has run, without a second mail
C4_Witness ==
    /\ reconnectAttempts > alertThreshold
    /\ alertsSinceOpen = 1

\* C15: while the service is started, not connected and not shutting down,
\* with no open in progress, a reconnect loop is alive.
C15_LoopWhileNotReady ==
    (pc["svc"] = "started" /\ ~isClosing /\ ~isConnected /\ modemState = "closed")
        => intervalActive >= 1

\* C18: modem.open is never called while a previous open is still open or
\* in progress.
C18_OneOpenAtATime ==
    lastOpen # "overlapping"

\* C19: the service is treated as Ready (isConnected, which allows sends and
\* balance checks) only after the initialization commands have run.
C19_ReadyAfterInit ==
    isConnected => modemInitialized

\* C24: a failure reported to the caller of sendSms is {success: false,
\* message} and the message holds no text the modem sent: no line of a modem
\* response is part of the result of a failed job.
C24_NoRawResponse ==
    \A j \in Jobs :
        (pc[j] = "done" /\ ~result[j].success)
            => \A i \in 1..Len(result[j].detail) : result[j].detail[i] \notin PduLines

\* the message format initializeModem of the queue service selects
initMode == "AT+CMGF=0"

\* C29: the message format selected at initialization stays in force: the
\* modem never confirms a command of a send path that selects the other one.
C29_ModeKept ==
    \A p \in QueueProcs \ QInitProcs :
        (tx[p].st = "resolved" /\ tx[p].cause = "terminator"
         /\ tx[p].cmd \in {"AT+CMGF=0", "AT+CMGF=1"})
            => tx[p].cmd = initMode

\* C30: reconnect attempts are sequential: a tick begins an attempt only
\* when no earlier attempt is still waiting for its alert mail or for its
\* modem.open to finish.
C30_SequentialAttempts ==
    [][reconnectAttempts' = reconnectAttempts + 1
           => (mailPending = 0 /\ modemState # "opening")]_vars

\* C31: whenever the session is connected the reconnect loop is stopped
\* (no live interval, no stored handle) and the failure counter is zero.
C31_ConnectedStopsLoop ==
    isConnected
        => (reconnectAttempts = 0 /\ intervalActive = 0 /\ ~reconnectInterval)

\* connected again after a loop that reached the alert: its tick of attempt 5
\* is still waiting for the mail
C31_Witness ==
    isConnected /\ mailPending > 0 /\ reconnectAttempts = 0 /\ intervalActive = 0

\* C32: the first command of a job is issued only by a consumer that has
\* no job behind it or whose delay after the previous job has elapsed; a job
\* enqueued during the delay waits for its end.
C32_CooldownEnforced ==
    [][(\E i \in 1..Len(outcome') :
            /\ outcome'[i].status = "InFlight"
            /\ (i > Len(outcome) \/ outcome[i].status # "InFlight"))
          => \/ pc["consumer"] = "idle"
             \/ pc["consumer"] = "cooldown" /\ cooldown = 0]_vars

\* the second job is in flight after the first has resolved
C32_Witness ==
    /\ Len(outcome) = 2
    /\ outcome[1].status \in {"Sent", "Failed"}
    /\ outcome[2].status = "InFlight"

\* the line the parser emitted in this step, as a transaction that was
\* listening recorded it
Heard(line) ==
    \E p \in DOMAIN tx :
        /\ tx[p].st = "active"
        /\ Len(tx'[p].response) = Len(tx[p].response) + 1
        /\ Last(tx'[p].response) = line

\* the callers whose command was written in this step
Issued == {p \in DOMAIN tx : tx'[p].st = "active" /\ tx[p].st # "active"}

\* C33: a '+CMTI' line makes the incoming handler issue one AT+CMGR and
\* nothing else; any other line makes it issue no command, enqueue nothing
\* and fail nothing.
C33_OneReadPerNotification ==
    [][/\ Heard(LineCmti)
            => /\ Issued = {"inc1"}
               /\ tx'["inc1"].cmd = "AT+CMGR"
               /\ messageQueue' = messageQueue /\ outcome' = outcome
       /\ (\E line \in QueueLines \ {LineCmti} : Heard(line))
            => /\ Issued = {}
               /\ pc'["inc1"] = pc["inc1"]
               /\ messageQueue' = messageQueue /\ outcome' = outcome]_vars

\* the read command of a notification is out while another caller's command
\* heard the notification too
C33_Witness ==
    /\ pc["inc1"] = "cmgr" /\ tx["inc1"].cmd = "AT+CMGR"
    /\ \E p \in DOMAIN tx :
          Len(tx[p].response) > 0 /\ Last(tx[p].response) = LineCmti

(***************************************************************************)
(* Claims on the PDU builders                                              *)
(***************************************************************************)
\* C20: a text whose UCS-2 encoding is longer than 140 octets is rejected:
\* no PDU is built for it and no AT+CMGS is written.
C20_TooLongRejected ==
    msgOctets(codecIn.chars) > maxOctets
        => (~codecOut.built /\ ~codecOut.written)

\* what a receiver makes of an address field: every pair swapped back and
\* the filler nibble F at the end dropped
decodeSemiOctets(field) ==
    IF Len(field) > 0 /\ swapPairs(field)[Len(field)] = "F"
    THEN SubSeq(swapPairs(field), 1, Len(field) - 1)
    ELSE swapPairs(field)

\* the digits among the characters of an address field
digitCount(field) == Cardinality({i \in 1..Len(field) : field[i] \in Digits})

Assembled == codecOut.stage \in {"returned", "written"} /\ codecOut.built

\* C21: for a text of at most 140 UCS-2 octets the builder succeeds and the
\* command length it reports, the one written in AT+CMGS=<length>, is the
\* number of octets of the PDU less 1 and less the octets of the SMSC address.
C21_CommandLength ==
    (codecOut.stage \in {"returned", "written"}
     /\ msgOctets(codecIn.chars) <= maxOctets)
        => /\ codecOut.built
           /\ codecOut.pduLength
                = codecOut.octets - 1 - Len(codecOut.smscAddr) \div 2

\* C22: decoding the semi-octets of an encoded number (pairs swapped back,
\* filler F stripped) gives the digits of the number without its '+', for the
\* SMSC and for the recipient of every assembled frame.
C22_RoundTrip ==
    Assembled
        => /\ decodeSemiOctets(codecOut.recipientEncoded)
                = stripPlus(codecOut.fullNumber)
           /\ decodeSemiOctets(codecOut.smscEncoded) = stripPlus(codecIn.smsc)

Scenario ==
    /\ codecIn.builder = "service"
    /\ codecIn.recipient = <<"6", "5", "1", "2", "3", "4", "5", "6">>
    /\ codecIn.smsc = defaultSmsc
    /\ codecIn.chars = 5

\* C23 as it holds: the destination length field of a frame of the service
\* is the number of digits of the number with its country code, which is the
\* number of digits in the destination address field, and the user data are
\* the UCS-2 octets of the text; for "65123456" and "Hello" that is 11 and 10.
C23_DestinationLength ==
    (Assembled /\ codecIn.builder = "service")
        => /\ codecOut.recipientLength = Len(stripPlus(codecOut.fullNumber))
           /\ codecOut.recipientLength = digitCount(codecOut.recipientEncoded)
           /\ codecOut.udl = msgOctets(codecIn.chars)
           /\ Scenario => (codecOut.recipientLength = 11 /\ codecOut.udl = 10)

C23_Witness == Scenario /\ Assembled /\ codecOut.written

\* C23 as stated: the frame for {destination "65123456", payload "Hello"}
\* and SMSC "99365999996" has the destination length 8 and the user data of
\* "Hello".
C23_ScenarioLengthEight ==
    (Scenario /\ Assembled)
        => (codecOut.recipientLength = localDigits /\ codecOut.udl = 10)

(***************************************************************************)
(* Claims on the send queue of the gsm service                             *)
(***************************************************************************)
\* C25: every record the broker delivers through GsmController.sendSMS is
\* put into the send queue and answered with a {success, message} result.
C25_BrokerRecordsAccepted ==
    \A i \in 1..Len(outcome) :
        outcome[i].caller = "controller"
            => (outcome[i].returned = "queued" /\ outcome[i].status # "dropped")

Running == {c \in Consumers : pc[c] \in {"sending", "delay"}}
Enqueued == Len(outcome') = Len(outcome) + 1 /\ outcome'[Len(outcome')].returned = "queued"

\* C26: a step that enqueues a job returns with the job at the tail of the
\* queue, or in the hands of the consumer it started when none was running
\* and the queue was empty, and not yet sent; the jobs queued before keep
\* their places; at no time do two consumers run.
C26_EnqueueFrame ==
    [][/\ Enqueued =>
            /\ outcome'[Len(outcome')].status \in {"queued", "sending"}
            /\ \/ messageQueue' =
                    Append(messageQueue,
                           [id |-> Len(outcome'),
                            phonenumber |-> outcome'[Len(outcome')].phonenumber])
               \/ /\ messageQueue = <<>> /\ messageQueue' = <<>>
                  /\ Running = {}
                  /\ \E c \in Consumers : current'[c].id = Len(outcome')
            /\ \A c \in Running : current'[c] = current[c] /\ pc'[c] = pc[c]
       /\ Cardinality(Running') <= 1]_vars

C26_Witness ==
    /\ Len(messageQueue) >= 1
    /\ \E c \in Consumers : pc[c] = "sending"
    /\ outcome[Len(outcome)].status = "queued"

\* C27: a job for '0800' is handed to the modem with the address '0800'; a
\* job for any other destination with '+993' and the 8 digits of its
\* subscriber number.
C27_Addressing ==
    \A i \in 1..Len(outcome) :
        outcome[i].status \in {"sending", "sent", "failed"}
            => IF outcome[i].phonenumber = shortCode
               THEN outcome[i].full = shortCode
               ELSE /\ outcome[i].full = countryCode \o lastEight(outcome[i].phonenumber)
                    /\ digitsExactly(lastEight(outcome[i].phonenumber), localDigits)

(***************************************************************************)
(* Claims on incoming messages                                             *)
(***************************************************************************)
\* the amount before 'manat' is a number and that number is below the
\* threshold
BelowThreshold ==
    /\ inbound.manat
    /\ \E w \in WholeParts, f \in Fractions :
          inbound.amount = w \o f /\ wholeValue(w) < balanceThreshold

AlertedNumbers ==
    [i \in 1..Len(outcome) |-> outcome[i].phonenumber]

\* C28: once an inbound message is dealt with, an alert SMS is queued for
\* each administrator number if the sender is '0800' and the body holds an
\* amount of manat that parses and is below the threshold 10, and nothing is
\* queued otherwise.
C28_AlertIffLowBalance ==
    inbound.stage \in {"logged", "handled"}
        => /\ AlertedNumbers =
                IF inbound.sender = shortCode /\ BelowThreshold
                THEN inbound.admins ELSE <<>>
           /\ \A i \in 1..Len(outcome) : outcome[i].returned = "queued"

(***************************************************************************)
(* Further claims on the send queue, the reconnect loop and the            *)
(* transactions                                                            *)
(***************************************************************************)

\* C34: while the service runs, a consumer loop is running whenever the
\* queue holds a message or isProcessing is set, so every enqueued message
\* is taken from the queue in the end.
C34_QueueNeverStuck ==
    (pc["svc"] = "started" /\ (messageQueue # <<>> \/ isProcessing))
        => Running # {}

\* a tick of the reconnect loop starts an attempt, or its initializeModem
\* starts to open the closed modem
AttemptStep ==
    /\ pc' = pc
    /\ \/ reconnectAttempts' > reconnectAttempts
       \/ modemState = "closed" /\ modemState' = "opening"

\* C35: the reconnect loop makes no attempt while the session is connected
\* or after isClosing is set, a tick suspended in the alert call included.
C35_NoAttemptWhenConnectedOrClosing ==
    [][AttemptStep => (~isConnected /\ ~isClosing)]_vars

\* C36: when the alert call of the threshold tick settles, sent or not, and
\* the session is neither connected nor closing, the tick goes on to its
\* reconnect attempt.
C36_AttemptDespiteMailFailure ==
    [][(mailPending' < mailPending /\ ~isConnected /\ ~isClosing
            /\ modemState = "closed")
          => modemState' = "opening"]_vars

\* C37: however often initializeModem has run, one handler at most is
\* registered per modem event, so an event causes each reaction once.
C37_OneHandlerPerEvent == \A b \in Builds : handlers[b] <= 1

\* a call of the controller, which passes no key, under a configured key
Mismatched(call) == call.caller = "controller" /\ otpKey # "undefined"

\* C38: a sendSms call whose key differs from OTP_KEY leaves the queue and
\* the consumers as they were and its message is never handed to the modem;
\* a call with the matching key enqueues exactly one message.
C38_KeyGate ==
    [][/\ Len(outcome') = Len(outcome) + 1 =>
            LET call == outcome'[Len(outcome')]
                msg == [id |-> Len(outcome'), phonenumber |-> call.phonenumber]
                taken == {c \in Consumers : pc[c] = "idle" /\ pc'[c] = "sending"}
            IN  IF Mismatched(call)
                THEN /\ messageQueue' = messageQueue /\ isProcessing' = isProcessing
                     /\ current' = current /\ pc' = pc
                ELSE \/ taken = {} /\ messageQueue' = Append(messageQueue, msg)
                     \/ /\ \E c \in Consumers : taken = {c} /\ current'[c] = msg
                        /\ messageQueue = <<>> /\ messageQueue' = <<>>
       /\ \A i \in 1..Len(outcome') :
             Mismatched(outcome'[i]) => outcome'[i].status = "dropped"]_vars

\* under a configured key a call of the controller was dropped and the
\* balance request of the cron was sent
C38_Witness ==
    /\ otpKey = "secret"
    /\ \E i, j \in 1..Len(outcome) :
          /\ outcome[i].caller = "controller" /\ outcome[i].status = "dropped"
          /\ outcome[j].caller = "cron" /\ outcome[j].status = "sent"

\* the ways a transaction that was written settles
SettlePaths == {"terminator", "modemError", "writeError", "timeout"}

\* C39: every sendSms call ends with a result {success, message}; on the
\* way each of its transactions settles by its terminator, an error token,
\* a write error or its timeout, and no more than maxRetries attempts are
\* made.
C39_SendSmsSettles ==
    /\ [](\A j \in Jobs :
            /\ Settled(j) => tx[j].cause \in SettlePaths
            /\ attempt[j] <= maxRetries
            /\ pc[j] = "done" => result[j].message # "")
    /\ \A j \in Jobs : (input[j] # "none") ~> (pc[j] = "done")

\* both calls have returned: one with success, the other, every attempt
\* of which the modem refused, with its failure after the last attempt
C39_Witness ==
    /\ pc["job1"] = "done" /\ pc["job2"] = "done"
    /\ \E j, k \in Jobs :
          /\ result[j].success
          /\ ~result[k].success /\ attempt[k] = maxRetries
          /\ result[k].message = "Failed to send SMS after 3 attempts"

\* C40: a transaction settles once: when it has settled, by whichever
\* path, its listener is off the parser and its timer is spent, and its
\* record stays as it settled until the caller takes it, so no line that
\* arrives for a later transaction is added to it.
C40_SettledOnce ==
    [][\A p \in DOMAIN tx :
          Settled(p) =>
              /\ ~tx[p].listening /\ ~tx[p].armed
              /\ \/ tx'[p] = tx[p]
                 \/ tx'[p].st \in {"none", "active"}
                 \/ tx'[p].cause = "notOpen"]_vars

\* one transaction has settled on its terminator while the transaction of
\* another caller is listening with a line already in its response
C40_Witness ==
    \E p, q \in DOMAIN tx :
        /\ Settled(p) /\ tx[p].cause = "terminator"
        /\ Active(q) /\ tx[q].listening /\ tx[q].response # <<>>

====
